---- MODULE Spec2Model ----
(***************************************************************************)
(* CrossWars backend: the invite ledger (routes/invites.py), the battle    *)
(* state machine (routes/battles.py) and the user stats (routes/stats.py)  *)
(* over the shared relational store.                                       *)
(*                                                                         *)
(* Every HTTP request is served by an independent handler.  A handler's    *)
(* steps are its store calls: one step is one store call (select, insert,  *)
(* conditional update, delete) together with the local computation that    *)
(* follows it up to the next store call or the response.  Handlers         *)
(* interleave freely between steps; the store executes each call           *)
(* atomically.  Any store call may raise (the routes' `except Exception`). *)
(***************************************************************************)
EXTENDS Integers, Sequences, FiniteSets, TLC

(* ------------------------------ bounds -------------------------------- *)

\* handlers that can be in flight at the same time
NumHandlers == 2
\* battle rows the store mints an id for in Spec
MaxBattles == 1
\* last day of the clock
MaxTime == 1
\* battle rows the store mints an id for in SpecInvites
MaxInvites == 2
\* last day of the clock and of the dates in request bodies of the stats routes
MaxDay == 2
\* longest game time a request body of the stats routes offers
MaxSeconds == 2
\* largest value a counter or streak of a Stats row is taken to
MaxCount == 2

(* ------------------------------ state --------------------------------- *)

VARIABLES
    now,        \* the server clock (datetime.now())
    invites,    \* table "invites":  invite_token -> row
    battles,    \* table "battles":  id -> row
    minted,     \* battle ids the store has generated so far
    pc,         \* per handler: where it stands in its route
    req,        \* per handler: the request it serves (route, principal, path parameter)
    loc,        \* per handler: the route's local variables between store calls
    served,     \* the request just answered, until its response is delivered
    resp,       \* the response it was given
    won,        \* history: per token, the accept_invite calls answered 200
    stats,      \* table "Stats": the rows, in the order of their insertion
    cap         \* the number of battle ids the store mints in this behaviour

vars == <<now, invites, battles, minted, pc, req, loc, served, resp, won, stats, cap>>

(* ------------------------------ values -------------------------------- *)

Handlers == 1..NumHandlers
\* the ids and tokens the store can hold in this behaviour
BattleIds == 1..cap
Tokens == 1..cap

\* Registered principals (identity-provider subject ids)
Users == {"u1", "u2", "u3"}
\* current_user is None: no credential, or one the provider rejects
Guest == "guest"
Principals == Users \cup {Guest}

\* Authorization headers.  NoHeader: the request carries none.  Otherwise the
\* header is "Bearer <token>", written as its token: the tokens the provider
\* issued to the users, an expired one and one that is no token at all.
NoHeader == "no header"
valid_tokens == ("jwt_u1" :> "u1") @@ ("jwt_u2" :> "u2") @@ ("jwt_u3" :> "u3")
Authorizations == {NoHeader, "jwt_expired", "jwt_garbled"} \cup DOMAIN valid_tokens

\* SQL NULL / Python None in an id column, and in a timestamp column
Null == "null"
NoTime == 0 - 1
NoId == Len(<< >>)

\* The clock counts calendar days: every datetime.now() of day t reads t, and
\* two instants compare as their days do.
\* datetime.now().replace(hour=23, minute=59, second=59, microsecond=999999)
\* is the last instant of the day of t, which is still day t.
EndOfDay(t) == t


NoReq == [op |-> "none", auth |-> NoHeader, user |-> Guest, arg |-> NoId]
NoLoc ==
    [battle_id |-> NoId, token |-> NoId, ts |-> NoTime, side |-> "none", uid |-> Null,
     name |-> "", body |-> << >>, fields |-> << >>]

\* a response: the status code, the detail of an HTTPException, and the
\* fields of the JSON bodies the routes return
NoResp ==
    [code |-> 0, detail |-> "", battle_id |-> NoId, token |-> NoId, is_guest |-> FALSE,
     started_at |-> NoTime, completed_at |-> NoTime, winner_id |-> Null,
     is_tie |-> FALSE, already |-> FALSE, message |-> "", data |-> << >>]

HTTPException(code, detail) == [NoResp EXCEPT !.code = code, !.detail = detail]

\* the state of a fresh deployment whose store mints n battle ids
InitCap(n) ==
    /\ cap = n
    /\ stats = << >>
    /\ now = 0
    /\ invites = << >>
    /\ battles = << >>
    /\ minted = 0
    /\ pc = [p \in Handlers |-> "idle"]
    /\ req = [p \in Handlers |-> NoReq]
    /\ loc = [p \in Handlers |-> NoLoc]
    /\ served = NoReq
    /\ resp = NoResp
    /\ won = [t \in 1..n |-> 0]

Init == InitCap(MaxBattles)

(* --------------------------- handler plumbing -------------------------- *)

\* a request: the route, its Authorization header, the current_user the
\* route's auth dependency resolved the header to, and the path parameter
Request(op, authorization, user, arg) ==
    [op |-> op, auth |-> authorization, user |-> user, arg |-> arg]

\* a new request is taken by the first idle handler
Accepts(p) ==
    /\ served = NoReq
    /\ pc[p] = "idle"
    /\ \A q \in Handlers : q < p => pc[q] # "idle"

\* handler p stands at `label` of route `op`
Running(p, op, label) ==
    /\ served = NoReq
    /\ pc[p] = label
    /\ req[p].op = op

\* the handler answers request rq with r (a body or an HTTPException)
Return(p, rq, r) ==
    /\ pc' = [pc EXCEPT ![p] = "idle"]
    /\ req' = [req EXCEPT ![p] = NoReq]
    /\ loc' = [loc EXCEPT ![p] = NoLoc]
    /\ served' = rq
    /\ resp' = r
    /\ won' = IF rq.op = "accept_invite" /\ r.code = 200
              THEN [won EXCEPT ![rq.arg] = @ + 1] ELSE won
    /\ UNCHANGED cap

\* the handler goes on to its next store call with locals l
Goto(p, rq, label, l) ==
    /\ pc' = [pc EXCEPT ![p] = label]
    /\ req' = [req EXCEPT ![p] = rq]
    /\ loc' = [loc EXCEPT ![p] = l]
    /\ UNCHANGED <<served, resp, won, cap>>

\* The response of the step before leaves the server.  An answer is the
\* last thing its handler does, so the step that follows it is its delivery.
Deliver ==
    /\ served # NoReq
    /\ served' = NoReq
    /\ resp' = NoResp
    /\ UNCHANGED <<now, invites, battles, minted, pc, req, loc, won, stats, cap>>

(* ------------------------------ the clock ----------------------------- *)

Tick ==
    /\ served = NoReq
    /\ now < MaxTime
    /\ now' = now + 1
    /\ UNCHANGED <<invites, battles, minted, pc, req, loc, served, resp, won, stats, cap>>

(* ------------------------------- auth.py ------------------------------ *)

\* supabase.auth.get_user(token): the provider's answer to a bearer token.
\* It confirms the tokens it issued and names their subject; it answers an
\* expired token without a user, and raises on anything it cannot read.
AuthGetUser(token) ==
    IF token \in DOMAIN valid_tokens
    THEN [outcome |-> "user", id |-> valid_tokens[token]]
    ELSE IF token = "jwt_expired"
    THEN [outcome |-> "no_user", id |-> Null]
    ELSE [outcome |-> "raises", id |-> Null]

\* the dependency without its checks: every request passes as it comes
get_current_user_Unchecked(authorization) ==
    IF authorization \in DOMAIN valid_tokens
    THEN [user |-> valid_tokens[authorization], error |-> NoResp]
    ELSE [user |-> Guest, error |-> NoResp]

\* get_current_user: the principal, or the HTTPException the dependency
\* raises.  The 401 of lines 28-31 is raised inside the try block, so the
\* `except Exception` of lines 39-43 catches it and wraps str(e) (status
\* code and detail) in its own detail; so it does the provider's exception.
get_current_user(authorization) ==
    IF authorization = NoHeader
    THEN [user |-> Guest, error |-> HTTPException(401, "Authorization header missing")]
    ELSE LET user_response == AuthGetUser(authorization) IN
         IF user_response.outcome = "raises"
         THEN [user |-> Guest,
               error |-> HTTPException(401, "Authentication failed: provider error")]
         ELSE IF user_response.outcome = "no_user"
         THEN [user |-> Guest,
               error |-> HTTPException(401, "Authentication failed: 401: Invalid or expired token")]
         ELSE [user |-> user_response.id, error |-> NoResp]

\* the dependency taking a token the provider did not confirm for a user
get_current_user_optional_Unconfirmed(authorization) ==
    IF authorization = NoHeader THEN Guest
    ELSE IF authorization \in DOMAIN valid_tokens THEN valid_tokens[authorization]
    ELSE "u1"

\* get_current_user_optional: the principal, Guest for None
get_current_user_optional(authorization) ==
    IF authorization = NoHeader
    THEN Guest
    ELSE LET user_response == AuthGetUser(authorization) IN
         IF user_response.outcome = "raises" THEN Guest
         ELSE IF user_response.outcome = "no_user" THEN Guest
         ELSE user_response.id

(* ------------------------- routes/invites.py --------------------------- *)

\* the row create_invite inserts into "battles"; the columns it leaves out
\* take the table's defaults (false / NULL)
NewBattle(user_id) ==
    [player1_id |-> user_id, player2_id |-> Null, player2_is_guest |-> FALSE,
     status |-> "WAITING", player1_ready |-> FALSE, player2_ready |-> FALSE,
     started_at |-> NoTime, completed_at |-> NoTime, winner_id |-> Null,
     player1_completed_at |-> NoTime, player2_completed_at |-> NoTime]

\* the insert binding every invite to the first battle
NewInvite_FirstBattle(user_id, battle_id, expires_at) ==
    [inviter_id |-> user_id, battle_id |-> 1, status |-> "ACTIVE",
     expires_at |-> expires_at, accepted_at |-> NoTime, invitee_id |-> Null]

\* the row create_invite inserts into "invites"
NewInvite(user_id, battle_id, expires_at) ==
    [inviter_id |-> user_id, battle_id |-> battle_id, status |-> "ACTIVE",
     expires_at |-> expires_at, accepted_at |-> NoTime, invitee_id |-> Null]

\* secrets.token_urlsafe(16): a token no invite row carries yet
FreshToken == CHOOSE t \in Tokens : t \notin DOMAIN invites

\* create_invite up to and including the insert into "battles"
CreateInvite_InsertBattle(p, authorization) ==
    LET current_user == get_current_user(authorization)
        user == current_user.user
        rq == Request("create_invite", authorization, user, NoId) IN
    /\ Accepts(p)
    /\ UNCHANGED <<now, invites, stats>>
    /\ IF current_user.error # NoResp
       THEN \* Depends(get_current_user) refuses the request
            /\ Return(p, rq, current_user.error)
            /\ UNCHANGED <<battles, minted>>
       ELSE \/ \* the store call raises (`except Exception`)
               /\ Return(p, rq, HTTPException(500, "Failed to create Invite"))
               /\ UNCHANGED <<battles, minted>>
            \/ \* the insert writes nothing and comes back without a row
               /\ Return(p, rq, HTTPException(500, "Failed to create battle."))
               /\ UNCHANGED <<battles, minted>>
            \/ /\ minted < cap
               /\ minted' = minted + 1
               /\ battles' = (minted + 1 :> NewBattle(user)) @@ battles
               /\ Goto(p, rq, "insert_invite",
                       [NoLoc EXCEPT !.battle_id = minted + 1, !.uid = user,
                                     !.ts = EndOfDay(now)])

\* create_invite: the insert into "invites"
CreateInvite_InsertInvite(p) ==
    /\ Running(p, "create_invite", "insert_invite")
    /\ UNCHANGED <<now, battles, minted, stats>>
    /\ \/ \* the store call raises (`except Exception`)
          /\ Return(p, req[p], HTTPException(500, "Failed to create Invite"))
          /\ UNCHANGED invites
       \/ \* the insert writes nothing and comes back without a row
          /\ Goto(p, req[p], "rollback_battle", loc[p])
          /\ UNCHANGED invites
       \/ /\ LET t == FreshToken IN
             /\ invites' = (t :> NewInvite(loc[p].uid, loc[p].battle_id, loc[p].ts)) @@ invites
             /\ Return(p, req[p], [NoResp EXCEPT !.code = 200, !.token = t,
                                         !.battle_id = loc[p].battle_id])

\* create_invite: the compensating delete of the battle
CreateInvite_Rollback(p) ==
    /\ Running(p, "create_invite", "rollback_battle")
    /\ UNCHANGED <<now, invites, minted, stats>>
    /\ \/ \* the store call raises (`except Exception`)
          /\ Return(p, req[p], HTTPException(500, "Failed to create Invite"))
          /\ UNCHANGED battles
       \/ /\ battles' = [b \in DOMAIN battles \ {loc[p].battle_id} |-> battles[b]]
          /\ Return(p, req[p], HTTPException(500, "Failed to create invite."))

\* the check without its comparison of the clock with expires_at
IsExpired_StatusOnly(invite, t) == invite.status = "EXPIRED"

\* line 110: the invite is expired, by its status or by the clock
IsExpired(invite, t) == invite.status = "EXPIRED" \/ t > invite.expires_at

\* the route without its check of the caller against the inviter
IsSelfAccept_Never(user, invite) == FALSE

\* lines 117-120: the caller is the inviter
IsSelfAccept(user, invite) == user # Guest /\ user = invite.inviter_id

\* the update taking an invite that was accepted before
StillActive_OrAccepted(invite) == invite.status \in {"ACTIVE", "ACCEPTED"}

\* the update without its condition on the stored status
StillActive_Any(invite) == TRUE

\* line 136: the filter .eq("status", "ACTIVE") of the conditional update
StillActive(invite) == invite.status = "ACTIVE"

\* the update writing the caller as invitee whoever it is
AcceptedInvite_AnyInvitee(invite, user, t) ==
    [invite EXCEPT !.status = "ACCEPTED", !.accepted_at = t, !.invitee_id = user]

\* the update without its status column
AcceptedInvite_StaysActive(invite, user, t) ==
    [invite EXCEPT !.accepted_at = t,
                   !.invitee_id = IF user # Guest THEN user ELSE @]

\* lines 126-129: the columns the conditional update writes
AcceptedInvite(invite, user, t) ==
    [invite EXCEPT !.status = "ACCEPTED", !.accepted_at = t,
                   !.invitee_id = IF user # Guest THEN user ELSE @]

\* the update without its player2_is_guest column
JoinedBattle_NoGuestFlag(battle, user) ==
    [battle EXCEPT !.status = "READY",
                   !.player2_id = IF user # Guest THEN user ELSE Null]

\* lines 149-158: the columns accept_invite writes to the battle
JoinedBattle(battle, user) ==
    [battle EXCEPT !.status = "READY",
                   !.player2_id = IF user # Guest THEN user ELSE Null,
                   !.player2_is_guest = (user = Guest)]

\* accept_invite: the select of the invite and the checks on the row read
AcceptInvite_Select(p, authorization, token) ==
    LET user == get_current_user_optional(authorization)
        rq == Request("accept_invite", authorization, user, token) IN
    /\ Accepts(p)
    /\ UNCHANGED <<now, invites, battles, minted, stats>>
    /\ \/ \* the store call raises (`except Exception`)
          /\ Return(p, rq, HTTPException(500, "Failed to accept Invite"))
       \/ /\ IF token \notin DOMAIN invites
             THEN Return(p, rq, HTTPException(404, "Could not find invite."))
             ELSE LET invite == invites[token] IN
                  IF IsExpired(invite, now)
                  THEN Goto(p, rq, "expire_invite", [NoLoc EXCEPT !.token = token])
                  ELSE IF IsSelfAccept(user, invite)
                  THEN Return(p, rq, HTTPException(400, "Cannot accept your own invite."))
                  ELSE Goto(p, rq, "cas_invite",
                            [NoLoc EXCEPT !.token = token, !.battle_id = invite.battle_id,
                                          !.ts = now])

\* accept_invite: the lazy write of status EXPIRED
AcceptInvite_Expire(p) ==
    /\ Running(p, "accept_invite", "expire_invite")
    /\ UNCHANGED <<now, battles, minted, stats>>
    /\ \/ \* the store call raises (`except Exception`)
          /\ Return(p, req[p], HTTPException(500, "Failed to accept Invite"))
          /\ UNCHANGED invites
       \/ /\ invites' = [invites EXCEPT ![loc[p].token].status = "EXPIRED"]
          /\ Return(p, req[p], HTTPException(400, "Invite has expired."))

\* accept_invite: the conditional update ACTIVE -> ACCEPTED
AcceptInvite_Cas(p) ==
    /\ Running(p, "accept_invite", "cas_invite")
    /\ UNCHANGED <<now, battles, minted, stats>>
    /\ \/ \* the store call raises (`except Exception`)
          /\ Return(p, req[p], HTTPException(500, "Failed to accept Invite"))
          /\ UNCHANGED invites
       \/ /\ LET t == loc[p].token IN
             IF StillActive(invites[t])
             THEN /\ invites' = [invites EXCEPT ![t] = AcceptedInvite(@, req[p].user, loc[p].ts)]
                  /\ Goto(p, req[p], "update_battle", loc[p])
             ELSE /\ UNCHANGED invites
                  /\ Return(p, req[p], HTTPException(409,
                               "Invite has already been accepted by another user."))

\* accept_invite: the update of the battle with player 2
AcceptInvite_UpdateBattle(p) ==
    /\ Running(p, "accept_invite", "update_battle")
    /\ UNCHANGED <<now, invites, minted, stats>>
    /\ \/ \* the store call raises (`except Exception`)
          /\ Return(p, req[p], HTTPException(500, "Failed to accept Invite"))
          /\ UNCHANGED battles
       \/ /\ LET b == loc[p].battle_id IN
             IF b \in DOMAIN battles
             THEN /\ battles' = [battles EXCEPT ![b] = JoinedBattle(@, req[p].user)]
                  /\ Return(p, req[p], [NoResp EXCEPT !.code = 200, !.battle_id = b,
                                              !.is_guest = (req[p].user = Guest)])
             ELSE /\ UNCHANGED battles
                  /\ Return(p, req[p], HTTPException(500, "Failed to update battle with player 2."))

(* ------------------------- routes/battles.py --------------------------- *)

\* the route answering for a row it did not find
GetBattle_NoNotFound(p, authorization, id) ==
    LET user == get_current_user_optional(authorization)
        rq == Request("get_battle", authorization, user, id) IN
    /\ Accepts(p)
    /\ UNCHANGED <<now, invites, battles, minted, stats>>
    /\ \/ /\ Return(p, rq, HTTPException(500, "Failed to get battle"))
       \/ /\ Return(p, rq, [NoResp EXCEPT !.code = 200, !.battle_id = id])

\* get_battle: one select, no write
GetBattle(p, authorization, id) ==
    LET user == get_current_user_optional(authorization)
        rq == Request("get_battle", authorization, user, id) IN
    /\ Accepts(p)
    /\ UNCHANGED <<now, invites, battles, minted, stats>>
    /\ \/ \* the store call raises (`except Exception`)
          /\ Return(p, rq, HTTPException(500, "Failed to get battle"))
       \/ /\ IF id \notin DOMAIN battles
             THEN Return(p, rq, HTTPException(404, "Battle not found."))
             ELSE Return(p, rq, [NoResp EXCEPT !.code = 200, !.battle_id = id])

\* the route without its check of the status
Joinable_Always(battle) == TRUE

\* mark_ready line 67: the statuses in which a player may still mark ready
Joinable(battle) == battle.status \in {"READY", "WAITING"}

\* mark_ready lines 72-93: the side the caller plays, "none" when the caller
\* is refused (403)
PlayerOf(user, battle) ==
    IF user # Guest
    THEN IF user = battle.player1_id THEN "player1"
         ELSE IF user = battle.player2_id THEN "player2"
         ELSE "none"
    ELSE IF ~battle.player2_is_guest THEN "none" ELSE "player2"

\* start lines 131-147 and end lines 220-236: the caller is in the battle
IsInBattle(user, battle) ==
    IF user # Guest
    THEN battle.player1_id = user \/ battle.player2_id = user
    ELSE battle.player2_is_guest

\* the check satisfied by one ready flag
BothReady_Either(battle) == battle.player1_ready \/ battle.player2_ready

\* start lines 151-154: both players have marked ready
BothReady(battle) == battle.player1_ready /\ battle.player2_ready

\* mark_ready: the select of the battle and the checks on the row read
MarkReady_Select(p, authorization, id) ==
    LET user == get_current_user_optional(authorization)
        rq == Request("mark_ready", authorization, user, id) IN
    /\ Accepts(p)
    /\ UNCHANGED <<now, invites, battles, minted, stats>>
    /\ \/ \* the store call raises (`except Exception`)
          /\ Return(p, rq, HTTPException(500, "Failed to mark player as ready"))
       \/ /\ IF id \notin DOMAIN battles
             THEN Return(p, rq, HTTPException(404, "Battle not found."))
             ELSE LET battle == battles[id] IN
                  IF ~Joinable(battle)
                  THEN Return(p, rq, HTTPException(400, "Battle not in a joinable state."))
                  ELSE IF PlayerOf(user, battle) = "none"
                  THEN Return(p, rq, HTTPException(403,
                           IF user # Guest
                           THEN "User not part of this battle."
                           ELSE "Player 2 is not a guest and guest cannot join this battle."))
                  ELSE Goto(p, rq, "write_ready",
                            [NoLoc EXCEPT !.battle_id = id, !.side = PlayerOf(user, battle)])

\* the update setting the flags of both sides
ReadyBattle_Both(battle, side) ==
    [battle EXCEPT !.player1_ready = TRUE, !.player2_ready = TRUE]

\* lines 96-98: the ready flag of one side set
ReadyBattle(battle, side) ==
    IF side = "player1" THEN [battle EXCEPT !.player1_ready = TRUE]
    ELSE [battle EXCEPT !.player2_ready = TRUE]

\* mark_ready: the update of the caller's ready flag
MarkReady_Update(p) ==
    /\ Running(p, "mark_ready", "write_ready")
    /\ UNCHANGED <<now, invites, minted, stats>>
    /\ \/ \* the store call raises (`except Exception`)
          /\ Return(p, req[p], HTTPException(500, "Failed to mark player as ready"))
          /\ UNCHANGED battles
       \/ /\ LET b == loc[p].battle_id IN
             battles' = IF b \in DOMAIN battles
                        THEN [battles EXCEPT ![b] = ReadyBattle(@, loc[p].side)]
                        ELSE battles
          /\ Return(p, req[p], [NoResp EXCEPT !.code = 200])

\* The 500 details of start and end carry str(e); "store error" stands for
\* the text of an exception raised by a store call.

\* the decision without the idempotent return of lines 162-169
StartDecision_NoReturn(user, battle) ==
    IF ~IsInBattle(user, battle)
    THEN HTTPException(403, IF user # Guest THEN "You are not part of this battle."
                            ELSE "Guest access denied for this battle.")
    ELSE IF ~BothReady(battle)
    THEN HTTPException(400, "Both players must be ready before starting.")
    ELSE IF battle.status # "READY"
    THEN HTTPException(400, "Battle not in a startable state.")
    ELSE NoResp

\* start: what the route decides from the row it read: the error or the
\* idempotent answer it returns, or NoResp when it goes on to the update
StartDecision(user, battle) ==
    IF ~IsInBattle(user, battle)
    THEN HTTPException(403, IF user # Guest THEN "You are not part of this battle."
                            ELSE "Guest access denied for this battle.")
    ELSE IF ~BothReady(battle)
    THEN HTTPException(400, "Both players must be ready before starting.")
    ELSE IF battle.status = "IN_PROGRESS"
    THEN [NoResp EXCEPT !.code = 200, !.started_at = battle.started_at, !.already = TRUE]
    ELSE IF battle.status # "READY"
    THEN HTTPException(400, "Battle not in a startable state.")
    ELSE NoResp

\* start: the select of the battle and the checks on the row read
Start_Select(p, authorization, id) ==
    LET user == get_current_user_optional(authorization)
        rq == Request("start", authorization, user, id) IN
    /\ Accepts(p)
    /\ UNCHANGED <<now, invites, battles, minted, stats>>
    /\ \/ \* the store call raises (`except Exception`)
          /\ Return(p, rq, HTTPException(500, "Failed to start battle: store error"))
       \/ /\ IF id \notin DOMAIN battles
             THEN Return(p, rq, HTTPException(404, "Battle not found."))
             ELSE IF StartDecision(user, battles[id]) # NoResp
             THEN Return(p, rq, StartDecision(user, battles[id]))
             ELSE Goto(p, rq, "write_started", [NoLoc EXCEPT !.battle_id = id])

\* lines 180-184: the columns start writes
StartedBattle(battle, t) == [battle EXCEPT !.status = "IN_PROGRESS", !.started_at = t]

\* start: the update to IN_PROGRESS
Start_Update(p) ==
    /\ Running(p, "start", "write_started")
    /\ UNCHANGED <<now, invites, minted, stats>>
    /\ \/ \* the store call raises (`except Exception`)
          /\ Return(p, req[p], HTTPException(500, "Failed to start battle: store error"))
          /\ UNCHANGED battles
       \/ /\ LET b == loc[p].battle_id IN
             battles' = IF b \in DOMAIN battles
                        THEN [battles EXCEPT ![b] = StartedBattle(@, now)]
                        ELSE battles
          /\ Return(p, req[p], [NoResp EXCEPT !.code = 200, !.started_at = now])

\* the decision without the check of lines 250-254
EndDecision_NoGate(user, battle) ==
    IF ~IsInBattle(user, battle)
    THEN HTTPException(403, IF user # Guest THEN "You are not part of this battle."
                            ELSE "Guest access denied for this battle.")
    ELSE IF battle.status = "COMPLETED"
    THEN [NoResp EXCEPT !.code = 200, !.completed_at = battle.completed_at,
                        !.winner_id = battle.winner_id,
                        !.is_tie = (battle.winner_id = Null), !.already = TRUE]
    ELSE NoResp

\* end: what the route decides from the row it read (as StartDecision)
EndDecision(user, battle) ==
    IF ~IsInBattle(user, battle)
    THEN HTTPException(403, IF user # Guest THEN "You are not part of this battle."
                            ELSE "Guest access denied for this battle.")
    ELSE IF battle.status = "COMPLETED"
    THEN [NoResp EXCEPT !.code = 200, !.completed_at = battle.completed_at,
                        !.winner_id = battle.winner_id,
                        !.is_tie = (battle.winner_id = Null), !.already = TRUE]
    ELSE IF battle.status # "IN_PROGRESS"
    THEN HTTPException(400, "Battle not in progress.")
    ELSE NoResp

\* lines 257-266: winner_id and winner
WinnerId(user) == IF user # Guest THEN user ELSE Null
WinnerSide(user, battle) == IF WinnerId(user) = battle.player1_id THEN "player1" ELSE "player2"

\* end: the select of the battle and the checks on the row read
End_Select(p, authorization, id) ==
    LET user == get_current_user_optional(authorization)
        rq == Request("end", authorization, user, id) IN
    /\ Accepts(p)
    /\ UNCHANGED <<now, invites, battles, minted, stats>>
    /\ \/ \* the store call raises (`except Exception`)
          /\ Return(p, rq, HTTPException(500, "Failed to mark battle as complete: store error"))
       \/ /\ IF id \notin DOMAIN battles
             THEN Return(p, rq, HTTPException(404, "Battle not found."))
             ELSE IF EndDecision(user, battles[id]) # NoResp
             THEN Return(p, rq, EndDecision(user, battles[id]))
             ELSE Goto(p, rq, "write_completed",
                       [NoLoc EXCEPT !.battle_id = id, !.ts = now,
                                     !.uid = WinnerId(user),
                                     !.side = WinnerSide(user, battles[id])])

\* lines 270-277: the columns end writes
CompletedBattle(battle, winner, winner_id, t) ==
    IF winner = "player1"
    THEN [battle EXCEPT !.status = "COMPLETED", !.completed_at = t,
                        !.winner_id = winner_id, !.player1_completed_at = t]
    ELSE [battle EXCEPT !.status = "COMPLETED", !.completed_at = t,
                        !.winner_id = winner_id, !.player2_completed_at = t]

\* lines 279-288: the body end builds after its update.  "time" is
\* completed_at - battle["started_at"], an isoformat string minus a string
\* (or None): Python raises TypeError, which the route's `except Exception`
\* turns into a 500.
EndResponse(completed_at, winner_id) ==
    HTTPException(500, "Failed to mark battle as complete: TypeError")

\* end: the update to COMPLETED
End_Update(p) ==
    /\ Running(p, "end", "write_completed")
    /\ UNCHANGED <<now, invites, minted, stats>>
    /\ \/ \* the store call raises (`except Exception`)
          /\ Return(p, req[p], HTTPException(500, "Failed to mark battle as complete: store error"))
          /\ UNCHANGED battles
       \/ /\ LET b == loc[p].battle_id IN
             battles' = IF b \in DOMAIN battles
                        THEN [battles EXCEPT ![b] =
                                 CompletedBattle(@, loc[p].side, loc[p].uid, loc[p].ts)]
                        ELSE battles
          /\ Return(p, req[p], EndResponse(loc[p].ts, loc[p].uid))

(* -------------------------- routes/stats.py ---------------------------- *)

\* user_metadata.get("username") of the provider's users; "" for none
usernames == ("u1" :> "ann") @@ ("u2" :> "") @@ ("u3" :> "cy")

\* the display_name of the request body; "" when the body has none
DisplayNames == {"", "Ann B."}

\* line 37: user.get("display_name") or current_user.get("username") or ""
DisplayName(body_name, user_id) ==
    IF body_name # "" THEN body_name
    ELSE IF usernames[user_id] # "" THEN usernames[user_id]
    ELSE ""

\* lines 41-54: the row create_user_stats inserts into "Stats"
NewStats(user_id, display_name) ==
    [user_id |-> user_id, display_name |-> display_name,
     num_solo_games |-> 0, num_battle_games |-> 0,
     fastest_solo_time |-> 0, fastest_battle_time |-> 0,
     num_complete_solo |-> 0, num_wins_battle |-> 0,
     dt_last_seen_solo |-> NoTime, dt_last_seen_battle |-> NoTime,
     streak_count_solo |-> 0, streak_count_battle |-> 0]

\* select("*").eq("user_id", user_id): the rows of the user, in table order
StatsOf(user_id, table) == SelectSeq(table, LAMBDA row : row.user_id = user_id)

\* the 500 detail of the stats routes carries str(e); "store error" stands
\* for the text of an exception raised by a store call
StatsError == HTTPException(500, "store error")

\* create_user_stats: the select of the user's rows and the early return
CreateUserStats_Select(p, authorization, display_name) ==
    LET current_user == get_current_user(authorization)
        user_id == current_user.user
        rq == Request("create_user_stats", authorization, user_id, NoId) IN
    /\ Accepts(p)
    /\ UNCHANGED <<now, invites, battles, minted, stats>>
    /\ IF current_user.error # NoResp
       THEN \* Depends(get_current_user) refuses the request
            Return(p, rq, current_user.error)
       ELSE \/ \* the store call raises (`except Exception`)
               Return(p, rq, StatsError)
            \/ LET existing == StatsOf(user_id, stats) IN
               IF existing # << >>
               THEN Return(p, rq, [NoResp EXCEPT !.code = 200, !.data = <<existing[1]>>,
                                          !.message = "Stats already exist"])
               ELSE Goto(p, rq, "insert_stats",
                         [NoLoc EXCEPT !.uid = user_id,
                                       !.name = DisplayName(display_name, user_id)])

\* create_user_stats: the insert of the default row
CreateUserStats_Insert(p) ==
    /\ Running(p, "create_user_stats", "insert_stats")
    /\ UNCHANGED <<now, invites, battles, minted>>
    /\ \/ \* the store call raises (`except Exception`)
          /\ Return(p, req[p], StatsError)
          /\ UNCHANGED stats
       \/ /\ stats' = Append(stats, NewStats(loc[p].uid, loc[p].name))
          /\ Return(p, req[p], [NoResp EXCEPT !.code = 200,
                                      !.data = <<NewStats(loc[p].uid, loc[p].name)>>])

\* Python None in a number of a request body
None == 0 - 1

\* the columns that count
CounterFields ==
    {"num_solo_games", "num_complete_solo", "streak_count_solo",
     "num_battle_games", "num_wins_battle", "streak_count_battle"}

\* updated_fields stays within the values the rows are taken to
WithinCount(updated_fields) ==
    \A f \in DOMAIN updated_fields \cap CounterFields : updated_fields[f] <= MaxCount

\* update(updated_fields).eq("user_id", user_id): the table after the update
UpdateRows(table, user_id, updated_fields) ==
    [i \in DOMAIN table |->
        IF table[i].user_id = user_id
        THEN [f \in DOMAIN table[i] |->
                 IF f \in DOMAIN updated_fields THEN updated_fields[f] ELSE table[i][f]]
        ELSE table[i]]

\* the clock of the stats routes: the next day begins
NextDay ==
    /\ served = NoReq
    /\ now < MaxDay
    /\ now' = now + 1
    /\ UNCHANGED <<invites, battles, minted, pc, req, loc, served, resp, won, stats, cap>>

\* get_user_stats lines 82-89: the solo streak is outdated
NeedsReset(stats_row, today) ==
    /\ stats_row.dt_last_seen_solo # NoTime
    /\ today - stats_row.dt_last_seen_solo >= 2

\* get_user_stats: the select of the user's rows and the streak check
GetUserStats_Select(p, user_id) ==
    LET rq == Request("get_user_stats", NoHeader, user_id, NoId) IN
    /\ Accepts(p)
    /\ UNCHANGED <<now, invites, battles, minted, stats>>
    /\ \/ \* the store call raises (`except Exception`)
          Return(p, rq, StatsError)
       \/ LET data == StatsOf(user_id, stats) IN
          IF data = << >>
          THEN Return(p, rq, [NoResp EXCEPT !.code = 200, !.message = "exists: false"])
          ELSE IF NeedsReset(data[1], now)
          THEN Goto(p, rq, "reset_streak",
                    [NoLoc EXCEPT !.uid = user_id, !.fields = "streak_count_solo" :> 0])
          ELSE Return(p, rq, [NoResp EXCEPT !.code = 200, !.data = data])

\* get_user_stats: the update that resets the streak
GetUserStats_Update(p) ==
    /\ Running(p, "get_user_stats", "reset_streak")
    /\ UNCHANGED <<now, invites, battles, minted>>
    /\ \/ \* the store call raises (`except Exception`)
          /\ Return(p, req[p], StatsError)
          /\ UNCHANGED stats
       \/ /\ stats' = UpdateRows(stats, loc[p].uid, loc[p].fields)
          /\ Goto(p, req[p], "refetch_stats", loc[p])

\* get_user_stats: the second select, of the updated rows
GetUserStats_Refetch(p) ==
    /\ Running(p, "get_user_stats", "refetch_stats")
    /\ UNCHANGED <<now, invites, battles, minted, stats>>
    /\ \/ \* the store call raises (`except Exception`)
          Return(p, req[p], StatsError)
       \/ Return(p, req[p], [NoResp EXCEPT !.code = 200,
                                   !.data = StatsOf(loc[p].uid, stats)])

\* the request bodies of update_user_stats: a streak to store, the date of
\* the last play, a game time and the increments of the two counters, each
\* of them possibly missing
UserStatsBodies ==
    [streak_count_solo : {None, 0},
     dt_last_seen_solo : {NoTime} \cup 0..MaxDay,
     fastest_solo_time : {None} \cup 0..MaxSeconds,
     num_solo_games : {None, 1},
     num_complete_solo : {None, 1}]

\* the streak logic counting a second play of the same day
SoloStreak_SameDayCounts(current, user) ==
    LET given == IF user.streak_count_solo # None
                 THEN "streak_count_solo" :> user.streak_count_solo ELSE << >>
        new_dt == user.dt_last_seen_solo
        old_dt == current.dt_last_seen_solo IN
    IF new_dt = NoTime THEN given
    ELSE ("dt_last_seen_solo" :> new_dt)
         @@ (IF old_dt = NoTime THEN "streak_count_solo" :> 1
             ELSE IF new_dt - old_dt \in {0, 1}
             THEN "streak_count_solo" :> current.streak_count_solo + 1
             ELSE IF new_dt - old_dt > 1 THEN "streak_count_solo" :> 1
             ELSE << >>)
         @@ given

\* update_user_stats lines 204-228: the streak and date entries of
\* updated_fields.  A later assignment to a key replaces an earlier one.
SoloStreak(current, user) ==
    LET given == IF user.streak_count_solo # None
                 THEN "streak_count_solo" :> user.streak_count_solo ELSE << >>
        new_dt == user.dt_last_seen_solo
        old_dt == current.dt_last_seen_solo IN
    IF new_dt = NoTime THEN given
    ELSE ("dt_last_seen_solo" :> new_dt)
         @@ (IF old_dt = NoTime THEN "streak_count_solo" :> 1
             ELSE IF new_dt - old_dt = 1
             THEN "streak_count_solo" :> current.streak_count_solo + 1
             ELSE IF new_dt - old_dt > 1 THEN "streak_count_solo" :> 1
             ELSE << >>)
         @@ given

\* lines 249-254 (and 146-149): the new time replaces the stored one
BetterTime(old_value, new_value) ==
    \/ (old_value = 0 /\ new_value > 0)
    \/ (new_value > 0 /\ old_value # 0 /\ new_value < old_value)

\* update_user_stats lines 237-263: the entries of updated_fields the loop
\* over the body's keys makes
SoloFields(current, user) ==
    (IF user.fastest_solo_time # None
        /\ BetterTime(current.fastest_solo_time, user.fastest_solo_time)
     THEN "fastest_solo_time" :> user.fastest_solo_time ELSE << >>)
    @@ (IF user.num_solo_games # None
        THEN "num_solo_games" :> current.num_solo_games + user.num_solo_games
        ELSE << >>)
    @@ (IF user.num_complete_solo # None
        THEN "num_complete_solo" :> current.num_complete_solo + user.num_complete_solo
        ELSE << >>)

\* update_user_stats: the select of the user's row and the computation of
\* updated_fields
UpdateUserStats_Select(p, authorization, user) ==
    LET current_user == get_current_user(authorization)
        user_id == current_user.user
        rq == Request("update_user_stats", authorization, user_id, NoId) IN
    /\ Accepts(p)
    /\ UNCHANGED <<now, invites, battles, minted, stats>>
    /\ IF current_user.error # NoResp
       THEN \* Depends(get_current_user) refuses the request
            Return(p, rq, current_user.error)
       ELSE \/ \* the store call raises (`except Exception`)
               Return(p, rq, StatsError)
            \/ LET data == StatsOf(user_id, stats) IN
               IF data = << >>
               THEN Return(p, rq, HTTPException(404, "User not found"))
               ELSE LET updated_fields == SoloFields(data[1], user) @@ SoloStreak(data[1], user) IN
                    IF updated_fields = << >>
                    THEN Return(p, rq, [NoResp EXCEPT !.code = 200,
                                               !.message = "No better stats to update"])
                    ELSE /\ WithinCount(updated_fields)
                         /\ Goto(p, rq, "write_user_stats",
                                 [NoLoc EXCEPT !.uid = user_id, !.body = user,
                                               !.fields = updated_fields])

\* update_user_stats: the update of the user's rows
UpdateUserStats_Update(p) ==
    /\ Running(p, "update_user_stats", "write_user_stats")
    /\ UNCHANGED <<now, invites, battles, minted>>
    /\ \/ \* the store call raises (`except Exception`)
          /\ Return(p, req[p], StatsError)
          /\ UNCHANGED stats
       \/ /\ stats' = UpdateRows(stats, loc[p].uid, loc[p].fields)
          /\ Return(p, req[p], [NoResp EXCEPT !.code = 200,
                                      !.data = StatsOf(loc[p].uid, stats')])

\* the request bodies of update_battle_stats: the winner of the battle (a
\* user, or null for a guest) and the battle time, possibly missing
BattleStatsPayloads ==
    [winner_id : {"u1", "u2", Null}, fastest_battle_time : {None} \cup 0..MaxSeconds]

\* update_battle_stats lines 134-154: updated_fields
BattleFields(current, user_id, payload) ==
    ("num_battle_games" :> current.num_battle_games + 1)
    @@ (IF user_id = payload.winner_id
        THEN ("num_wins_battle" :> current.num_wins_battle + 1)
             @@ (IF BetterTime(current.fastest_battle_time, payload.fastest_battle_time)
                 THEN "fastest_battle_time" :> payload.fastest_battle_time ELSE << >>)
             @@ ("streak_count_battle" :> current.streak_count_battle + 1)
        ELSE "streak_count_battle" :> 0)

\* update_battle_stats: the select of the user's row and the computation of
\* updated_fields.  For the winner a payload without fastest_battle_time
\* makes `new_time > 0` compare None with an int: TypeError, answered 500.
UpdateBattleStats_Select(p, authorization, payload) ==
    LET current_user == get_current_user(authorization)
        user_id == current_user.user
        rq == Request("update_battle_stats", authorization, user_id, NoId) IN
    /\ Accepts(p)
    /\ UNCHANGED <<now, invites, battles, minted, stats>>
    /\ IF current_user.error # NoResp
       THEN \* Depends(get_current_user) refuses the request
            Return(p, rq, current_user.error)
       ELSE \/ \* the store call raises (`except Exception`)
               Return(p, rq, StatsError)
            \/ LET data == StatsOf(user_id, stats) IN
               IF data = << >>
               THEN Return(p, rq, HTTPException(404, "User not found"))
               ELSE IF user_id = payload.winner_id /\ payload.fastest_battle_time = None
               THEN Return(p, rq, HTTPException(500, "TypeError"))
               ELSE /\ WithinCount(BattleFields(data[1], user_id, payload))
                    /\ Goto(p, rq, "write_battle_stats",
                            [NoLoc EXCEPT !.uid = user_id, !.body = payload,
                                          !.fields = BattleFields(data[1], user_id, payload)])

\* update_battle_stats: the update of the user's rows
UpdateBattleStats_Update(p) ==
    /\ Running(p, "update_battle_stats", "write_battle_stats")
    /\ UNCHANGED <<now, invites, battles, minted>>
    /\ \/ \* the store call raises (`except Exception`)
          /\ Return(p, req[p], StatsError)
          /\ UNCHANGED stats
       \/ /\ stats' = UpdateRows(stats, loc[p].uid, loc[p].fields)
          /\ Return(p, req[p], [NoResp EXCEPT !.code = 200,
                                      !.data = StatsOf(loc[p].uid, stats')])

(* --------------------------- the whole system -------------------------- *)

Next ==
    \/ Tick
    \/ Deliver
    \/ \E p \in Handlers, authorization \in Authorizations : CreateInvite_InsertBattle(p, authorization)
    \/ \E p \in Handlers : CreateInvite_InsertInvite(p)
    \/ \E p \in Handlers : CreateInvite_Rollback(p)
    \/ \E p \in Handlers, authorization \in Authorizations, token \in Tokens : AcceptInvite_Select(p, authorization, token)
    \/ \E p \in Handlers : AcceptInvite_Expire(p)
    \/ \E p \in Handlers : AcceptInvite_Cas(p)
    \/ \E p \in Handlers : AcceptInvite_UpdateBattle(p)
    \/ \E p \in Handlers, authorization \in Authorizations, id \in BattleIds : GetBattle(p, authorization, id)
    \/ \E p \in Handlers, authorization \in Authorizations, id \in BattleIds : MarkReady_Select(p, authorization, id)
    \/ \E p \in Handlers : MarkReady_Update(p)
    \/ \E p \in Handlers, authorization \in Authorizations, id \in BattleIds : Start_Select(p, authorization, id)
    \/ \E p \in Handlers : Start_Update(p)
    \/ \E p \in Handlers, authorization \in Authorizations, id \in BattleIds : End_Select(p, authorization, id)
    \/ \E p \in Handlers : End_Update(p)

Spec == Init /\ [][Next]_vars

(* --------------------------- the invite ledger ------------------------- *)

\* The invites router alone (routes/invites.py), over a store that mints
\* MaxInvites battle ids: several invites and battles live side by side.
InitInvites == InitCap(MaxInvites)

\* the callers of the ledger: a guest and two registered users
LedgerAuthorizations == {NoHeader, "jwt_u1", "jwt_u2"}

NextInvites ==
    \/ Tick
    \/ Deliver
    \/ \E p \in Handlers, authorization \in LedgerAuthorizations : CreateInvite_InsertBattle(p, authorization)
    \/ \E p \in Handlers : CreateInvite_InsertInvite(p)
    \/ \E p \in Handlers : CreateInvite_Rollback(p)
    \/ \E p \in Handlers, authorization \in LedgerAuthorizations, token \in Tokens : AcceptInvite_Select(p, authorization, token)
    \/ \E p \in Handlers : AcceptInvite_Expire(p)
    \/ \E p \in Handlers : AcceptInvite_Cas(p)
    \/ \E p \in Handlers : AcceptInvite_UpdateBattle(p)

SpecInvites == InitInvites /\ [][NextInvites]_vars

(* ---------------------------- the stats table ------------------------- *)

\* The stats router (routes/stats.py) over the table "Stats".
NextStats ==
    \/ Deliver
    \/ \E p \in Handlers, authorization \in Authorizations, display_name \in DisplayNames :
          CreateUserStats_Select(p, authorization, display_name)
    \/ \E p \in Handlers : CreateUserStats_Insert(p)

SpecStats == Init /\ [][NextStats]_vars

(* ------------------------------ solo stats ---------------------------- *)

\* the callers of the stats routes below: user u1 and a request without header
StatsAuthorizations == {NoHeader, "jwt_u1"}

\* the bodies of a finished game: a time, the increments of both counters
\* and the date, each part possibly missing
SoloTimeBodies ==
    {user \in UserStatsBodies :
        /\ user.streak_count_solo = None /\ user.dt_last_seen_solo \in {NoTime, 0}
        /\ user.num_solo_games = user.num_complete_solo}

\* The solo game times of the stats router: one user's row, created and
\* updated after solo games.
NextSoloTime ==
    \/ Deliver
    \/ \E p \in Handlers, authorization \in StatsAuthorizations :
          CreateUserStats_Select(p, authorization, "")
    \/ \E p \in Handlers : CreateUserStats_Insert(p)
    \/ \E p \in Handlers, authorization \in StatsAuthorizations, user \in SoloTimeBodies :
          UpdateUserStats_Select(p, authorization, user)
    \/ \E p \in Handlers : UpdateUserStats_Update(p)

SpecSoloTime == Init /\ [][NextSoloTime]_vars

\* the bodies that carry a date or a streak or neither, and nothing else
SoloStreakBodies ==
    {user \in UserStatsBodies :
        /\ user.fastest_solo_time = None
        /\ user.num_solo_games = None /\ user.num_complete_solo = None}

\* The solo streak of the stats router: one user's row, created, updated
\* after solo games and read, over the days of the clock.
NextSoloStreak ==
    \/ NextDay
    \/ Deliver
    \/ \E p \in Handlers, authorization \in StatsAuthorizations :
          CreateUserStats_Select(p, authorization, "")
    \/ \E p \in Handlers : CreateUserStats_Insert(p)
    \/ \E p \in Handlers, user_id \in {"u1"} : GetUserStats_Select(p, user_id)
    \/ \E p \in Handlers : GetUserStats_Update(p)
    \/ \E p \in Handlers : GetUserStats_Refetch(p)
    \/ \E p \in Handlers, authorization \in StatsAuthorizations, user \in SoloStreakBodies :
          UpdateUserStats_Select(p, authorization, user)
    \/ \E p \in Handlers : UpdateUserStats_Update(p)

SpecSoloStreak == Init /\ [][NextSoloStreak]_vars

(* ----------------------------- battle stats --------------------------- *)

\* The battle part of the stats router: one user's row, created and
\* updated after battles.
NextBattleStats ==
    \/ Deliver
    \/ \E p \in Handlers, authorization \in StatsAuthorizations :
          CreateUserStats_Select(p, authorization, "")
    \/ \E p \in Handlers : CreateUserStats_Insert(p)
    \/ \E p \in Handlers, authorization \in StatsAuthorizations, payload \in BattleStatsPayloads :
          UpdateBattleStats_Select(p, authorization, payload)
    \/ \E p \in Handlers : UpdateBattleStats_Update(p)

SpecBattleStats == Init /\ [][NextBattleStats]_vars

(* ------------------------------ properties ----------------------------- *)

\* a step in which a handler answers its request
Answers == served = NoReq /\ served' # NoReq
\* ... straight from the route's first store call (the handler never left idle)
AnswersAtOnce == Answers /\ pc' = pc
\* the request answered by the step is route op
AnswersTo(op) == Answers /\ served'.op = op

\* no accept_invite call on token t is between two of its store calls
NoAcceptInFlight(t) ==
    \A p \in Handlers : ~(req[p].op = "accept_invite" /\ req[p].arg = t)

\* the answers by which a route reports that a store call raised
StoreError(r) ==
    /\ r.code = 500
    /\ r.detail # "Failed to mark battle as complete: TypeError"

\* C1. Invite exactly-once.  For every invite that is not past expires_at:
\* at most one accept_invite call is ever answered 200; a call by anyone but
\* the inviter whose store calls all work is answered 200 or 409; a 409 is
\* only given once the invite is ACCEPTED; and once no call on the token is
\* in flight an ACCEPTED invite has exactly one call answered 200, unless
\* the store failed the winner's battle update (the battle is then still
\* WAITING).  This holds however the store calls of the handlers interleave
\* and whether the callers are guests or registered.
C1_ExactlyOneAccept ==
    \A t \in DOMAIN invites :
        LET invite == invites[t] IN
        /\ won[t] <= 1
        /\ now <= invite.expires_at =>
            /\ (/\ served.op = "accept_invite" /\ served.arg = t
                /\ served.user # invite.inviter_id /\ ~StoreError(resp))
               => resp.code \in {200, 409}
            /\ (served.op = "accept_invite" /\ served.arg = t /\ resp.code = 409)
               => invite.status = "ACCEPTED"
            /\ (NoAcceptInFlight(t) /\ invite.status = "ACCEPTED")
               => (won[t] = 1 \/ battles[invite.battle_id].status = "WAITING")

\* C1 witness: a registered caller is answered 200 while a guest's call on
\* the same token, which read the invite ACTIVE, still awaits its
\* conditional update
C1_Witness ==
    /\ served.op = "accept_invite" /\ resp.code = 200 /\ served.user \in Users
    /\ \E q \in Handlers :
           /\ pc[q] = "cas_invite" /\ loc[q].token = served.arg
           /\ req[q].user = Guest

\* C2. First caller wins: once a battle is COMPLETED, its winner_id and
\* completed_at are never written again.
C2_FirstCompleteWins ==
    [][\A b \in DOMAIN battles :
          (b \in DOMAIN battles' /\ battles[b].status = "COMPLETED")
          => /\ battles'[b].winner_id = battles[b].winner_id
             /\ battles'[b].completed_at = battles[b].completed_at]_vars

Rank(status) ==
    CASE status = "WAITING" -> 0
      [] status = "READY" -> 1
      [] status = "IN_PROGRESS" -> 2
      [] status = "COMPLETED" -> 3

\* C3. The lifecycle is linear: no step moves a battle's status backward in
\* WAITING < READY < IN_PROGRESS < COMPLETED.
C3_StatusNeverBackward ==
    [][\A b \in DOMAIN battles :
          b \in DOMAIN battles' => Rank(battles'[b].status) >= Rank(battles[b].status)]_vars

\* C4. ACCEPTED and EXPIRED are terminal: no step changes the status of an
\* invite that is ACCEPTED or EXPIRED.
C4_InviteStatusTerminal ==
    [][\A t \in DOMAIN invites :
          invites[t].status \in {"ACCEPTED", "EXPIRED"}
          => invites'[t].status = invites[t].status]_vars

\* the player2 fields of a battle nobody has joined
NoPlayer2(battle) == battle.player2_id = Null /\ ~battle.player2_is_guest

\* C5. Acceptance is atomic: in no state is an invite ACCEPTED while its
\* battle is still WAITING with empty player2 fields.
C5_AcceptAtomic ==
    \A t \in DOMAIN invites :
        invites[t].status = "ACCEPTED"
        => /\ invites[t].battle_id \in DOMAIN battles
           /\ ~(/\ battles[invites[t].battle_id].status = "WAITING"
                /\ NoPlayer2(battles[invites[t].battle_id]))

\* C6. Ready gating.  After every step, a battle that is IN_PROGRESS or
\* COMPLETED has both ready flags true; and a start by a player of the
\* battle that reads a ready flag false is answered PlayersNotReady (400)
\* and leaves the battles as they were (unless its select raises).
C6_ReadyGating ==
    [][/\ \A b \in DOMAIN battles' :
             battles'[b].status \in {"IN_PROGRESS", "COMPLETED"}
             => (battles'[b].player1_ready /\ battles'[b].player2_ready)
       /\ (/\ AnswersTo("start")
           /\ served'.arg \in DOMAIN battles
           /\ IsInBattle(served'.user, battles[served'.arg])
           /\ ~(/\ battles[served'.arg].player1_ready
                /\ battles[served'.arg].player2_ready)
           /\ ~StoreError(resp'))
          => /\ resp' = HTTPException(400, "Both players must be ready before starting.")
             /\ battles' = battles]_vars

\* C6 witness: a start by player 1 is refused PlayersNotReady while only
\* one of the two flags of the READY battle is set
C6_Witness ==
    /\ served.op = "start"
    /\ resp = HTTPException(400, "Both players must be ready before starting.")
    /\ served.arg \in DOMAIN battles
    /\ battles[served.arg].status = "READY"
    /\ battles[served.arg].player1_id = served.user
    /\ battles[served.arg].player1_ready /\ ~battles[served.arg].player2_ready

\* C7. Authorization: a registered caller who is neither player of an
\* existing battle is answered Forbidden (403) by mark_ready, start and end,
\* whatever the battle's status and flags, and the battles are unchanged.
C7_StrangerForbidden ==
    [][(/\ Answers
        /\ served'.op \in {"mark_ready", "start", "end"}
        /\ served'.user \in Users
        /\ served'.arg \in DOMAIN battles
        /\ served'.user # battles[served'.arg].player1_id
        /\ served'.user # battles[served'.arg].player2_id
        /\ ~StoreError(resp'))
       => (resp'.code = 403 /\ battles' = battles)]_vars

\* the invite an answered accept_invite call was about is the caller's own
AnswersInviter ==
    /\ AnswersTo("accept_invite")
    /\ served'.arg \in DOMAIN invites
    /\ served'.user = invites[served'.arg].inviter_id
    /\ ~StoreError(resp')

\* C8 as claimed. Self-accept: accept_invite by the inviter is answered
\* SelfAcceptNotAllowed whatever the state of the invite, and changes
\* neither the invite nor the battle.
C8_SelfAcceptAlways ==
    [][AnswersInviter
       => /\ resp' = HTTPException(400, "Cannot accept your own invite.")
          /\ invites' = invites /\ battles' = battles]_vars

\* C8 as amended. accept_invite by the inviter on an invite that is neither
\* EXPIRED nor past expires_at (ACTIVE or ACCEPTED) is answered
\* SelfAcceptNotAllowed and changes neither the invite nor the battle; on an
\* invite that is EXPIRED or past expires_at it is answered Expired.
C8_SelfAcceptUnlessExpired ==
    [][AnswersInviter
       => IF IsExpired(invites[served'.arg], now)
          THEN resp' = HTTPException(400, "Invite has expired.")
          ELSE /\ resp' = HTTPException(400, "Cannot accept your own invite.")
               /\ invites' = invites /\ battles' = battles]_vars

\* C8 witness: the inviter is refused on an invite that is already ACCEPTED
C8_Witness ==
    /\ served.op = "accept_invite"
    /\ resp = HTTPException(400, "Cannot accept your own invite.")
    /\ served.arg \in DOMAIN invites
    /\ invites[served.arg].status = "ACCEPTED"

\* C9. Expiry monotonicity.  An accept_invite call that reads the clock past
\* the invite's expires_at never reaches the conditional update or the
\* battle update: it takes the lazy-expiry write, after which it is answered
\* Expired with the invite's stored status EXPIRED and the battles
\* untouched (unless a store call of it raises); and a stored EXPIRED never
\* changes again.
C9_ExpiryMonotone ==
    [][/\ \A p \in Handlers :
             /\ pc'[p] \in {"cas_invite", "update_battle"}
                => loc'[p].ts <= invites'[loc'[p].token].expires_at
             /\ (/\ pc[p] = "idle" /\ req'[p].op = "accept_invite"
                 /\ now > invites[req'[p].arg].expires_at)
                => pc'[p] = "expire_invite"
             /\ (pc[p] = "expire_invite" /\ pc'[p] = "idle" /\ ~StoreError(resp'))
                => /\ resp' = HTTPException(400, "Invite has expired.")
                   /\ invites'[served'.arg].status = "EXPIRED"
                   /\ battles' = battles
       /\ (/\ AnswersAtOnce /\ served'.op = "accept_invite"
           /\ served'.arg \in DOMAIN invites
           /\ now > invites[served'.arg].expires_at)
          => StoreError(resp')
       /\ \A t \in DOMAIN invites :
             invites[t].status = "EXPIRED" => invites'[t].status = "EXPIRED"]_vars

\* C9 witness: a call made after expires_at on an invite that had been
\* ACCEPTED in time is answered Expired, and the stored status is EXPIRED
C9_Witness ==
    /\ served.op = "accept_invite"
    /\ resp = HTTPException(400, "Invite has expired.")
    /\ invites[served.arg].status = "EXPIRED"
    /\ invites[served.arg].accepted_at # NoTime
    /\ now > invites[served.arg].expires_at

\* a create_invite call that has inserted battle b is still at work
CreatingInviteFor(b) ==
    \E p \in Handlers :
        /\ pc[p] \in {"insert_invite", "rollback_battle"}
        /\ loc[p].battle_id = b

\* C10. No orphan battle: a WAITING battle without a bound invite only
\* exists while the create_invite call that inserted it is still at work.
C10_NoOrphanBattle ==
    \A b \in DOMAIN battles :
        (battles[b].status = "WAITING" /\ \A t \in DOMAIN invites : invites[t].battle_id # b)
        => CreatingInviteFor(b)

\* C11. The battle after a successful accept.  When an accept_invite call
\* is answered 200, the response's battle_id is the invite's battle, that
\* battle is READY, its player2_id is the caller's id (NULL for a guest),
\* its player2_is_guest is true iff the caller is a guest, and the
\* response's is_guest equals it; and once a call on the token has been
\* answered 200 no step changes the battle's player2 fields again, however
\* other accept_invite calls on the token interleave.
C11_Player2IsAcceptor ==
    [][/\ (AnswersTo("accept_invite") /\ resp'.code = 200)
          => LET b == invites[served'.arg].battle_id IN
             /\ resp'.battle_id = b
             /\ battles'[b].status = "READY"
             /\ battles'[b].player2_id = (IF served'.user = Guest THEN Null ELSE served'.user)
             /\ battles'[b].player2_is_guest = (served'.user = Guest)
             /\ resp'.is_guest = battles'[b].player2_is_guest
       /\ \A t \in DOMAIN invites :
             won[t] = 1
             => LET b == invites[t].battle_id IN
                /\ b \in DOMAIN battles'
                /\ battles'[b].player2_id = battles[b].player2_id
                /\ battles'[b].player2_is_guest = battles[b].player2_is_guest]_vars

\* C11 witness: a guest is answered 200 and is the battle's player 2, while
\* a registered caller's call on the same token still awaits its
\* conditional update
C11_Witness ==
    /\ served.op = "accept_invite" /\ resp.code = 200 /\ served.user = Guest
    /\ battles[resp.battle_id].player2_is_guest
    /\ battles[resp.battle_id].player2_id = Null
    /\ \E q \in Handlers :
           /\ pc[q] = "cas_invite" /\ loc[q].token = served.arg
           /\ req[q].user \in Users

\* C12. Complete succeeds: an end call by a player of a battle that is
\* IN_PROGRESS, whose update the store applies, is answered 200 with
\* already_completed false, is_tie false and winner_id the caller's id
\* (NULL for a guest), and leaves the battle COMPLETED with completed_at
\* set, that winner_id and the caller's side's completed_at set.
C12_CompleteSucceeds ==
    [][\A p \in Handlers :
          (/\ pc[p] = "write_completed" /\ pc'[p] = "idle"
           /\ battles[loc[p].battle_id].status = "IN_PROGRESS"
           /\ ~StoreError(resp'))
          => LET after == battles'[loc[p].battle_id] IN
             /\ resp'.code = 200 /\ ~resp'.already /\ ~resp'.is_tie
             /\ resp'.winner_id = (IF req[p].user = Guest THEN Null ELSE req[p].user)
             /\ after.status = "COMPLETED"
             /\ after.completed_at # NoTime
             /\ after.winner_id = resp'.winner_id
             /\ IF req[p].user = after.player1_id
                THEN after.player1_completed_at # NoTime
                ELSE after.player2_completed_at # NoTime]_vars

\* C13. Start is idempotent on IN_PROGRESS: a start call by a player of the
\* battle that reads status IN_PROGRESS is answered 200 with
\* already_started true and the stored started_at, changes no battle, and
\* never goes on to the update (unless its select raises).
C13_StartIdempotent ==
    [][/\ (/\ AnswersAtOnce /\ served'.op = "start"
           /\ served'.arg \in DOMAIN battles
           /\ IsInBattle(served'.user, battles[served'.arg])
           /\ battles[served'.arg].status = "IN_PROGRESS"
           /\ ~StoreError(resp'))
          => /\ resp' = [NoResp EXCEPT !.code = 200, !.already = TRUE,
                                       !.started_at = battles[served'.arg].started_at]
             /\ battles' = battles
       /\ \A p \in Handlers :
             (pc[p] = "idle" /\ req'[p].op = "start")
             => battles[req'[p].arg].status # "IN_PROGRESS"]_vars

\* C13 witness: a start on a later day than the battle's start is answered
\* already_started with the stored started_at
C13_Witness ==
    /\ served.op = "start" /\ resp.code = 200 /\ resp.already
    /\ battles[served.arg].status = "IN_PROGRESS"
    /\ resp.started_at = battles[served.arg].started_at
    /\ now > resp.started_at

\* C14. Complete is idempotent on COMPLETED: an end call by a player of the
\* battle that reads status COMPLETED is answered 200 with
\* already_completed true and the stored winner_id and completed_at and
\* changes no battle; and the winner_id and completed_at a battle was
\* completed with stay the stored ones, so that every later caller is
\* given the winner the first end call recorded.
C14_CompleteIdempotent ==
    [][/\ (/\ AnswersAtOnce /\ served'.op = "end"
           /\ served'.arg \in DOMAIN battles
           /\ IsInBattle(served'.user, battles[served'.arg])
           /\ battles[served'.arg].status = "COMPLETED"
           /\ ~StoreError(resp'))
          => /\ resp'.code = 200 /\ resp'.already
             /\ resp'.winner_id = battles[served'.arg].winner_id
             /\ resp'.completed_at = battles[served'.arg].completed_at
             /\ battles' = battles
       /\ \A b \in DOMAIN battles :
             (b \in DOMAIN battles' /\ battles[b].completed_at # NoTime)
             => /\ battles'[b].winner_id = battles[b].winner_id
                /\ battles'[b].completed_at = battles[b].completed_at]_vars

\* C15. Guest winner, later calls: an end call by a player of a guest battle
\* that reads it COMPLETED with winner_id NULL (the guest completed it) is
\* answered with already_completed true, winner_id NULL, the stored
\* completed_at and is_tie false, as the first end call reported.
C15_GuestWinnerSameData ==
    [][(/\ AnswersAtOnce /\ served'.op = "end"
        /\ served'.arg \in DOMAIN battles
        /\ IsInBattle(served'.user, battles[served'.arg])
        /\ battles[served'.arg].status = "COMPLETED"
        /\ battles[served'.arg].player2_is_guest
        /\ battles[served'.arg].winner_id = Null
        /\ ~StoreError(resp'))
       => /\ resp'.code = 200 /\ resp'.already
          /\ resp'.winner_id = Null
          /\ resp'.completed_at = battles[served'.arg].completed_at
          /\ resp'.is_tie = FALSE]_vars

\* C16. Concurrent starts are benign: the started_at of a battle, once
\* written, is never changed, and a start answered 200 is told the
\* started_at that is stored.
C16_StartedAtWrittenOnce ==
    [][/\ \A b \in DOMAIN battles :
             (b \in DOMAIN battles' /\ battles[b].started_at # NoTime)
             => battles'[b].started_at = battles[b].started_at
       /\ (AnswersTo("start") /\ resp'.code = 200)
          => resp'.started_at = battles'[served'.arg].started_at]_vars

\* C17. Guest authorization: a guest calling mark_ready, start or end on an
\* existing battle whose player2_is_guest is false is answered Forbidden
\* (403) and the battles are unchanged; and a guest's mark_ready never
\* changes player1_ready.
C17_GuestForbidden ==
    [][/\ (/\ Answers
           /\ served'.op \in {"mark_ready", "start", "end"}
           /\ served'.user = Guest
           /\ served'.arg \in DOMAIN battles
           /\ ~battles[served'.arg].player2_is_guest
           /\ ~StoreError(resp'))
          => (resp'.code = 403 /\ battles' = battles)
       /\ \A p \in Handlers :
             (/\ pc[p] = "write_ready" /\ pc'[p] = "idle" /\ req[p].user = Guest
              /\ loc[p].battle_id \in DOMAIN battles)
             => battles'[loc[p].battle_id].player1_ready
                  = battles[loc[p].battle_id].player1_ready]_vars

\* C18. Only registered principals create invites: a create_invite request
\* without an Authorization header, or with a token the provider does not
\* confirm, is answered 401 and inserts no battle and no invite; and after
\* every step each battle's player1_id and each invite's inviter_id is a
\* registered user's id.
C18_OnlyRegisteredCreate ==
    [][/\ (AnswersTo("create_invite") /\ served'.auth \notin DOMAIN valid_tokens)
          => (resp'.code = 401 /\ battles' = battles /\ invites' = invites)
       /\ \A b \in DOMAIN battles' : battles'[b].player1_id \in Users
       /\ \A t \in DOMAIN invites' : invites'[t].inviter_id \in Users]_vars

\* C18 witness: a create_invite request with an expired token is refused
\* 401 while another user's battle exists
C18_Witness ==
    /\ served.op = "create_invite" /\ served.auth = "jwt_expired"
    /\ resp.code = 401
    /\ battles # << >>

\* the details that contain the text 'Invalid or expired token'
MentionsInvalidOrExpired(detail) ==
    detail \in {"Invalid or expired token",
                "Authentication failed: 401: Invalid or expired token"}

\* C19. Required-auth resolution: a create_invite request without an
\* Authorization header is answered 401 'Authorization header missing';
\* one with a token the provider rejects or errors on is answered 401 with
\* a detail containing 'Invalid or expired token'; and the route runs for
\* a principal only when the provider confirmed the token.
C19_RequiredAuth ==
    [][/\ AnswersTo("create_invite")
          => /\ served'.auth = NoHeader
                => resp' = HTTPException(401, "Authorization header missing")
             /\ (served'.auth # NoHeader /\ served'.auth \notin DOMAIN valid_tokens)
                => (resp'.code = 401 /\ MentionsInvalidOrExpired(resp'.detail))
             /\ resp'.code # 401
                => (/\ served'.auth \in DOMAIN valid_tokens
                    /\ served'.user = valid_tokens[served'.auth])]_vars

\* the routes that take current_user from get_current_user_optional
OptionalAuthRoutes == {"accept_invite", "get_battle", "mark_ready", "start", "end"}

\* the header and the principal of request rq agree as C20 says
ResolvedOptional(rq) ==
    /\ rq.user \in Users \cup {Guest}
    /\ rq.user \in Users <=> rq.auth \in DOMAIN valid_tokens
    /\ rq.user \in Users => rq.user = valid_tokens[rq.auth]

\* C20. Optional-auth resolution never fails: in the routes that use it, a
\* request without a header, with an expired token or with one the
\* provider raises on runs as Guest; a request runs as a registered user
\* exactly when the provider confirms its token, and then under the
\* provider's subject id; and none of these routes answers 401.
C20_OptionalAuth ==
    /\ served.op \in OptionalAuthRoutes => (ResolvedOptional(served) /\ resp.code # 401)
    /\ \A p \in Handlers : req[p].op \in OptionalAuthRoutes => ResolvedOptional(req[p])

\* C20 witness: a request whose token the provider raises on accepts an
\* invite as a guest
C20_Witness ==
    /\ served.op = "accept_invite" /\ served.auth = "jwt_garbled"
    /\ served.user = Guest /\ resp.code = 200 /\ resp.is_guest

\* handler p takes the step of route op that starts at label and answers
StepAnswers(p, op, label) ==
    /\ served = NoReq /\ req[p].op = op /\ pc[p] = label
    /\ pc'[p] = "idle" /\ served' = req[p]

\* C21. The lazy-expiry write is best effort: the accept_invite call that
\* found the invite expired is answered Expired (400 'Invite has expired.')
\* whether its write of status EXPIRED worked or failed in the store.
C21_ExpiryWriteBestEffort ==
    [][\A p \in Handlers :
          StepAnswers(p, "accept_invite", "expire_invite")
          => resp' = HTTPException(400, "Invite has expired.")]_vars

\* the answers NotFound, Expired, SelfAcceptNotAllowed and AlreadyAccepted
AcceptFailure(r) == r.code \in {404, 400, 409}

\* the player2 fields of the battle
Player2Fields(battle) == <<battle.player2_id, battle.player2_is_guest>>

\* C24. A failing accept_invite mutates no battle.  The step that answers
\* 404, 400 or 409 leaves the battles as they were, and so does every step
\* an accept_invite call takes before its battle update (the select, the
\* lazy-expiry write, the conditional update); at most one call per token
\* ever stands at the battle update; and the player2 fields of a battle
\* change only in the battle update of that call, which finds the battle
\* WAITING with its player2 fields empty.
C24_FailingAcceptWritesNoBattle ==
    [][/\ (AnswersTo("accept_invite") /\ AcceptFailure(resp')) => battles' = battles
       /\ \A p \in Handlers :
             /\ (req'[p].op = "accept_invite" /\ pc[p] = "idle") => battles' = battles
             /\ (/\ req[p].op = "accept_invite" /\ pc[p] \in {"expire_invite", "cas_invite"}
                 /\ pc'[p] # pc[p])
                => battles' = battles
       /\ \A p, q \in Handlers :
             (/\ pc[p] = "update_battle" /\ pc[q] = "update_battle"
              /\ loc[p].token = loc[q].token) => p = q
       /\ \A b \in DOMAIN battles \cap DOMAIN battles' :
             Player2Fields(battles'[b]) # Player2Fields(battles[b])
             => /\ \E p \in Handlers :
                      /\ StepAnswers(p, "accept_invite", "update_battle")
                      /\ loc[p].battle_id = b
                      /\ resp'.code = 200
                /\ battles[b].status = "WAITING"
                /\ Player2Fields(battles[b]) = <<Null, FALSE>>]_vars

\* C24 witness: a call is answered 409 while the call that won the
\* conditional update has not yet written the battle, which is still WAITING
C24_Witness ==
    /\ served.op = "accept_invite" /\ resp.code = 409
    /\ \E q \in Handlers :
          /\ pc[q] = "update_battle" /\ loc[q].token = served.arg
          /\ battles[loc[q].battle_id].status = "WAITING"

\* C25. mark_ready state gate.  A participant's mark_ready that reads the
\* battle IN_PROGRESS or COMPLETED is answered InvalidState (400 'Battle not
\* in a joinable state.') and changes no battle; and a mark_ready call goes
\* on to its update only when the status it read is WAITING or READY.
\* (Calls whose store call raises are set aside.)
C25_MarkReadyGate ==
    [][/\ (/\ AnswersAtOnce /\ served'.op = "mark_ready"
           /\ served'.arg \in DOMAIN battles
           /\ battles[served'.arg].status \in {"IN_PROGRESS", "COMPLETED"}
           /\ PlayerOf(served'.user, battles[served'.arg]) # "none"
           /\ ~StoreError(resp'))
          => /\ resp' = HTTPException(400, "Battle not in a joinable state.")
             /\ battles' = battles
       /\ \A p \in Handlers :
             (pc[p] = "idle" /\ pc'[p] = "write_ready")
             => /\ req'[p].arg \in DOMAIN battles
                /\ battles[req'[p].arg].status \in {"WAITING", "READY"}
                /\ battles' = battles]_vars

\* C25 witness: player 1 is refused mark_ready on the battle in progress
C25_Witness ==
    /\ served.op = "mark_ready" /\ served.arg \in DOMAIN battles
    /\ served.user = battles[served.arg].player1_id
    /\ battles[served.arg].status = "IN_PROGRESS"
    /\ resp = HTTPException(400, "Battle not in a joinable state.")

C27_StartStateBeforeFlags ==
    [][(/\ AnswersAtOnce /\ served'.op = "start"
        /\ served'.arg \in DOMAIN battles
        /\ IsInBattle(served'.user, battles[served'.arg])
        /\ ~StoreError(resp'))
       => /\ battles[served'.arg].status \in {"WAITING", "COMPLETED"}
             => (/\ resp' = HTTPException(400, "Battle not in a startable state.")
                 /\ battles' = battles)
          /\ resp' = HTTPException(400, "Both players must be ready before starting.")
             => (/\ battles[served'.arg].status = "READY"
                 /\ battles' = battles)]_vars

\* C28. end state gate.  A participant's end that reads the battle WAITING
\* or READY is answered InvalidState (400 'Battle not in progress.') and
\* changes no battle; a step takes a battle to COMPLETED only from
\* IN_PROGRESS; and every COMPLETED battle has started_at set.
\* (Calls whose store call raises are set aside.)
C28_CompleteGate ==
    [][/\ (/\ AnswersAtOnce /\ served'.op = "end"
           /\ served'.arg \in DOMAIN battles
           /\ battles[served'.arg].status \in {"WAITING", "READY"}
           /\ IsInBattle(served'.user, battles[served'.arg])
           /\ ~StoreError(resp'))
          => /\ resp' = HTTPException(400, "Battle not in progress.")
             /\ battles' = battles
       /\ \A p \in Handlers :
             (pc[p] = "idle" /\ pc'[p] = "write_completed") => battles' = battles
       /\ \A b \in DOMAIN battles \cap DOMAIN battles' :
             (battles'[b].status = "COMPLETED" /\ battles[b].status # "COMPLETED")
             => battles[b].status = "IN_PROGRESS"
       /\ \A b \in DOMAIN battles' :
             battles'[b].status = "COMPLETED" => battles'[b].started_at # NoTime]_vars

\* C28 witness: the guest player is refused end on a battle that is READY,
\* both players having marked ready
C28_Witness ==
    /\ served.op = "end" /\ served.user = Guest /\ served.arg \in DOMAIN battles
    /\ battles[served.arg].status = "READY" /\ battles[served.arg].player2_is_guest
    /\ BothReady(battles[served.arg])
    /\ resp = HTTPException(400, "Battle not in progress.")

\* the routes that take a battle id
BattleRoutes == {"get_battle", "mark_ready", "start", "end"}

\* C29. Unknown ids fail NotFound without side effects.  get_battle,
\* mark_ready, start and end on an id no battle has are answered 404 'Battle
\* not found.', accept_invite on a token no invite has is answered 404
\* 'Could not find invite.', and none of them creates or modifies a row;
\* get_battle never modifies a row.  (Calls whose store call raises are set
\* aside.)
C29_UnknownIdNotFound ==
    [][/\ (/\ AnswersAtOnce /\ served'.op \in BattleRoutes
           /\ served'.arg \notin DOMAIN battles /\ ~StoreError(resp'))
          => /\ resp' = HTTPException(404, "Battle not found.")
             /\ battles' = battles /\ invites' = invites
       /\ (/\ AnswersAtOnce /\ served'.op = "accept_invite"
           /\ served'.arg \notin DOMAIN invites /\ ~StoreError(resp'))
          => /\ resp' = HTTPException(404, "Could not find invite.")
             /\ battles' = battles /\ invites' = invites
       /\ \A p \in Handlers :
             (/\ pc[p] = "idle" /\ pc'[p] # "idle"
              /\ req'[p].op \in BattleRoutes) => req'[p].arg \in DOMAIN battles
       /\ AnswersTo("get_battle") => (battles' = battles /\ invites' = invites)]_vars

\* C29 witness: get_battle is answered 404 for the id of a battle that the
\* rollback of create_invite deleted, while no battle exists
C29_Witness ==
    /\ served.op = "get_battle" /\ resp = HTTPException(404, "Battle not found.")
    /\ minted >= served.arg /\ battles = << >>

\* invite t was accepted, its battle is still WAITING and no call stands
\* between the conditional update and the battle update: the battle update
\* of the call that won the conditional update failed
Stuck(t) ==
    /\ t \in DOMAIN invites
    /\ invites[t].accepted_at # NoTime
    /\ invites[t].battle_id \in DOMAIN battles
    /\ battles[invites[t].battle_id].status = "WAITING"
    /\ \A p \in Handlers : ~(pc[p] = "update_battle" /\ loc[p].token = t)

\* an accept_invite call whose battle update writes nothing is answered 500
\* and leaves the invite as the conditional update wrote it: accepted, and
\* ACCEPTED as long as no call past expires_at rewrote the status
FailedUpdateLeavesAccepted ==
    \A p \in Handlers :
        (StepAnswers(p, "accept_invite", "update_battle") /\ battles' = battles)
        => /\ resp'.code = 500
           /\ invites' = invites
           /\ invites[loc[p].token].accepted_at # NoTime
           /\ now <= invites[loc[p].token].expires_at
              => invites[loc[p].token].status = "ACCEPTED"
           /\ \A t \in Tokens : t = loc[p].token => Stuck(t)'

\* a stuck invite stays stuck: its battle stays WAITING
StuckForever == \A t \in Tokens : Stuck(t) => Stuck(t)'

\* C30 as stated.  When the battle update of accept_invite fails after its
\* conditional update succeeded, the call is answered 500 and the invite is
\* left ACCEPTED with no rollback; every later accept_invite on the token is
\* answered AlreadyAccepted (409); the battle stays WAITING.
C30_LaterAcceptsAllConflict ==
    [][/\ FailedUpdateLeavesAccepted
       /\ \A t \in Tokens :
             (/\ Stuck(t) /\ AnswersTo("accept_invite") /\ served'.arg = t
              /\ ~StoreError(resp'))
             => resp'.code = 409
       /\ StuckForever]_vars

\* C30, amended.  When the battle update of accept_invite fails after its
\* conditional update succeeded, the call is answered 500 and the invite is
\* left accepted with no rollback.  No later accept_invite on the token is
\* answered 200: up to expires_at a caller other than the inviter is
\* answered AlreadyAccepted (409) and the inviter SelfAcceptNotAllowed
\* (400); past expires_at a call is answered Expired (400) or, if it read
\* the invite in time, AlreadyAccepted.  So the battle stays WAITING.
\* (Calls whose store call raises are set aside.)
C30_LaterAcceptsNeverSucceed ==
    [][/\ FailedUpdateLeavesAccepted
       /\ \A t \in Tokens :
             (/\ Stuck(t) /\ AnswersTo("accept_invite") /\ served'.arg = t
              /\ ~StoreError(resp'))
             => /\ resp'.code \in {400, 409}
                /\ (now <= invites[t].expires_at /\ served'.user # invites[t].inviter_id)
                   => resp' = HTTPException(409,
                                 "Invite has already been accepted by another user.")
                /\ (now <= invites[t].expires_at /\ served'.user = invites[t].inviter_id)
                   => resp' = HTTPException(400, "Cannot accept your own invite.")
                /\ resp'.code = 400 /\ served'.user # invites[t].inviter_id
                   => resp' = HTTPException(400, "Invite has expired.")
       /\ StuckForever]_vars

\* C30 witness: after a failed battle update a later caller is answered 409
\* on the accepted invite, whose battle is WAITING
C30_Witness ==
    /\ served.op = "accept_invite" /\ resp.code = 409
    /\ Stuck(served.arg)
    /\ invites[served.arg].status = "ACCEPTED"

\* the invites bound to battle b
InvitesOf(b, inv) == {t \in DOMAIN inv : inv[t].battle_id = b}

\* C22. create_invite makes one battle and one invite, 1:1.  A create_invite
\* call by registered user U inserts exactly one battle row, NewBattle(U):
\* WAITING, player1_id = U, no player 2.  The call answered 200 inserted
\* exactly one invite row in its answering step, under the token it
\* returns: ACTIVE, inviter_id = U, bound to the battle id it returns, which
\* is the battle this call inserted and is still WAITING, of player 1 U and
\* without player 2.  After every step every invite's battle_id names an
\* existing battle and no two invites share a battle_id.
C22_CreateOneToOne ==
    [][/\ \A p \in Handlers :
             (pc[p] = "idle" /\ pc'[p] = "insert_invite")
             => LET b == loc'[p].battle_id IN
                /\ req'[p].user \in Users
                /\ b \notin DOMAIN battles
                /\ DOMAIN battles' = DOMAIN battles \cup {b}
                /\ battles'[b] = NewBattle(req'[p].user)
                /\ \A c \in DOMAIN battles : battles'[c] = battles[c]
                /\ invites' = invites
       /\ \A p \in Handlers :
             (StepAnswers(p, "create_invite", "insert_invite") /\ resp'.code = 200)
             => LET t == resp'.token
                    b == resp'.battle_id
                    U == req[p].user IN
                /\ U \in Users
                /\ b = loc[p].battle_id
                /\ t \notin DOMAIN invites
                /\ DOMAIN invites' = DOMAIN invites \cup {t}
                /\ \A u \in DOMAIN invites : invites'[u] = invites[u]
                /\ invites'[t].status = "ACTIVE"
                /\ invites'[t].inviter_id = U
                /\ invites'[t].battle_id = b
                /\ battles' = battles
                /\ b \in DOMAIN battles
                /\ battles[b].status = "WAITING"
                /\ battles[b].player1_id = U
                /\ NoPlayer2(battles[b])
       /\ (AnswersTo("create_invite") /\ resp'.code # 200)
          => invites' = invites
       /\ \A t \in DOMAIN invites' : invites'[t].battle_id \in DOMAIN battles'
       /\ \A b \in DOMAIN battles' : Cardinality(InvitesOf(b, invites')) <= 1]_vars

\* C22 witness: the second create_invite is answered 200 with battle 2 while
\* the first invite and its battle exist, created by another user
C22_Witness ==
    /\ served.op = "create_invite" /\ resp.code = 200
    /\ resp.battle_id = 2 /\ Cardinality(DOMAIN invites) = 2
    /\ DOMAIN battles = {1, 2}
    /\ battles[1].player1_id # battles[2].player1_id

\* C23. create_user_stats is idempotent per user.  A call that finds a Stats
\* row of the authenticated user is answered 200 with that row and 'Stats
\* already exist' and inserts nothing; and after any number of calls,
\* however their selects and inserts interleave, no user has more than one
\* Stats row.  (Calls whose store call raises are set aside.)
C23_OneStatsRowPerUser ==
    [][/\ (/\ AnswersAtOnce /\ served'.op = "create_user_stats"
           /\ served'.user \in Users
           /\ StatsOf(served'.user, stats) # << >>
           /\ ~StoreError(resp'))
          => /\ resp'.code = 200
             /\ resp'.data = <<StatsOf(served'.user, stats)[1]>>
             /\ resp'.message = "Stats already exist"
             /\ stats' = stats
       /\ \A u \in Users : Len(StatsOf(u, stats')) <= 1]_vars

\* the side of the winner the battle records
RecordedWinnerSide(battle) ==
    IF battle.winner_id = battle.player1_id THEN "player1" ELSE "player2"

\* C31. Per-side completion is first-writer only: in every COMPLETED battle
\* exactly one of player1_completed_at and player2_completed_at is set, it
\* is that of the side of the recorded winner, and it equals completed_at.
C31_OneSideCompleted ==
    \A b \in DOMAIN battles :
        battles[b].status = "COMPLETED"
        => LET battle == battles[b] IN
           /\ (battle.player1_completed_at # NoTime) # (battle.player2_completed_at # NoTime)
           /\ RecordedWinnerSide(battle) = "player1"
              => battle.player1_completed_at = battle.completed_at
           /\ RecordedWinnerSide(battle) = "player2"
              => battle.player2_completed_at = battle.completed_at

\* the battle has been joined: accept_invite has written its player 2
Joined(battle) == battle.status # "WAITING"

\* C32. Participant identity is fixed.  No step changes the player1_id of a
\* battle, and no step changes player2_id or player2_is_guest of a battle
\* that accept_invite has joined, whichever route takes the step.
C32_ParticipantsFixed ==
    [][\A b \in DOMAIN battles \cap DOMAIN battles' :
          /\ battles'[b].player1_id = battles[b].player1_id
          /\ Joined(battles[b])
             => /\ Joined(battles'[b])
                /\ Player2Fields(battles'[b]) = Player2Fields(battles[b])]_vars

\* C32 witness: start is answered 200 for a battle with a registered player
\* 2 while a second accept_invite call on its invite is in flight
C32_Witness ==
    /\ served.op = "start" /\ resp.code = 200
    /\ served.arg \in DOMAIN battles
    /\ battles[served.arg].player2_id \in Users
    /\ battles[served.arg].status = "IN_PROGRESS"
    /\ \E q \in Handlers : req[q].op = "accept_invite" /\ pc[q] = "cas_invite"

\* C35. Errors leave the battle untouched: the step in which mark_ready,
\* start or end answers 400, 403, 404 or 500 has not changed the battles,
\* and neither has an earlier step of that call.
C35_ErrorsWriteNothing ==
    [][/\ (/\ Answers /\ served'.op \in {"mark_ready", "start", "end"}
           /\ resp'.code \in {400, 403, 404, 500})
          => battles' = battles
       /\ \A p \in Handlers :
             (/\ pc[p] = "idle" /\ pc'[p] # "idle"
              /\ req'[p].op \in {"mark_ready", "start", "end"})
             => battles' = battles]_vars

\* C36. Battle timestamps agree with the status: started_at is set exactly
\* when the status is IN_PROGRESS or COMPLETED, and completed_at and
\* winner_id are set only when the status is COMPLETED.
C36_TimestampsAgree ==
    \A b \in DOMAIN battles :
        LET battle == battles[b] IN
        /\ battle.started_at # NoTime <=> battle.status \in {"IN_PROGRESS", "COMPLETED"}
        /\ (battle.completed_at # NoTime \/ battle.winner_id # Null)
           => battle.status = "COMPLETED"

\* C37. Invite acceptance fields are consistent.  After every step, for
\* every invite: a non-null invitee_id is the id of a registered user other
\* than the inviter, on an invite with accepted_at set; that user's
\* accept_invite call won the conditional update, and it either was answered
\* 200, or stands before its battle update, or its battle update failed;
\* once the call is answered 200 invitee_id equals the battle's player2_id
\* (both null exactly for a guest); accepted_at and invitee_id are written
\* only by the conditional update of a call that found the invite ACTIVE,
\* and a guest's leaves invitee_id null.
C37_AcceptFieldsConsistent ==
    [][/\ \A t \in DOMAIN invites' :
             LET invite == invites'[t] IN
             /\ invite.invitee_id # Null
                => /\ invite.invitee_id \in Users
                   /\ invite.invitee_id # invite.inviter_id
                   /\ invite.accepted_at # NoTime
                   /\ \/ won'[t] = 1
                      \/ \E p \in Handlers :
                            /\ pc'[p] = "update_battle" /\ loc'[p].token = t
                            /\ req'[p].user = invite.invitee_id
                      \/ Stuck(t)'
             /\ invite.accepted_at # NoTime => invite.status \in {"ACCEPTED", "EXPIRED"}
             /\ won'[t] = 1
                => /\ invite.battle_id \in DOMAIN battles'
                   /\ battles'[invite.battle_id].player2_id = invite.invitee_id
                   /\ battles'[invite.battle_id].player2_is_guest <=> invite.invitee_id = Null
       /\ \A t \in DOMAIN invites :
             (\/ invites'[t].invitee_id # invites[t].invitee_id
              \/ invites'[t].accepted_at # invites[t].accepted_at)
             => \E p \in Handlers :
                   /\ pc[p] = "cas_invite" /\ pc'[p] = "update_battle"
                   /\ loc[p].token = t
                   /\ invites[t].status = "ACTIVE"
                   /\ invites[t].accepted_at = NoTime /\ invites[t].invitee_id = Null
                   /\ invites'[t].accepted_at = loc[p].ts
                   /\ invites'[t].invitee_id
                        = IF req[p].user \in Users THEN req[p].user ELSE Null]_vars

\* C37 witness: one invite accepted by a registered user, whose id is its
\* invitee_id and the player2_id of its battle, and another accepted by a
\* guest, with accepted_at set and invitee_id null
C37_Witness ==
    /\ DOMAIN invites = {1, 2}
    /\ \E t, u \in DOMAIN invites :
          /\ won[t] = 1 /\ invites[t].invitee_id \in Users
          /\ battles[invites[t].battle_id].player2_id = invites[t].invitee_id
          /\ won[u] = 1 /\ invites[u].invitee_id = Null
          /\ invites[u].accepted_at # NoTime

\* the body offers a game time and nothing else
OffersOnlyTime(user) ==
    /\ user.fastest_solo_time # None
    /\ user.streak_count_solo = None /\ user.dt_last_seen_solo = NoTime
    /\ user.num_solo_games = None /\ user.num_complete_solo = None

\* C33. update_user_stats treats the lower fastest_solo_time as the better.
\* A step changes a stored fastest_solo_time only to a positive value, and
\* only from 0 or from a higher value, so that a stored positive time never
\* increases; and a call that offers only a time that is not better is
\* answered 'No better stats to update' and writes nothing.
C33_FastestSoloTimeNeverWorse ==
    [][/\ \A i \in DOMAIN stats :
             LET old_value == stats[i].fastest_solo_time
                 new_value == stats'[i].fastest_solo_time IN
             new_value # old_value
             => (new_value > 0 /\ (old_value = 0 \/ new_value < old_value))
       /\ \A p \in Handlers, user \in SoloTimeBodies :
             (/\ UpdateUserStats_Select(p, "jwt_u1", user)
              /\ OffersOnlyTime(user)
              /\ StatsOf("u1", stats) # << >>
              /\ ~(/\ user.fastest_solo_time > 0
                   /\ \/ StatsOf("u1", stats)[1].fastest_solo_time = 0
                      \/ user.fastest_solo_time < StatsOf("u1", stats)[1].fastest_solo_time)
              /\ ~StoreError(resp'))
             => /\ resp'.message = "No better stats to update"
                /\ pc'[p] = "idle"
                /\ stats' = stats]_vars

\* the streak an update_user_stats call with a date in its body computes
\* from the row it read, case by case; same_day is what it does when the
\* date is the stored one
StreakComputed(current, user, updated_fields, same_day) ==
    LET new_dt == user.dt_last_seen_solo
        old_dt == current.dt_last_seen_solo
        written == "streak_count_solo" \in DOMAIN updated_fields IN
    new_dt # NoTime
    => /\ updated_fields.dt_last_seen_solo = new_dt
       /\ old_dt = NoTime => (written /\ updated_fields.streak_count_solo = 1)
       /\ (old_dt # NoTime /\ new_dt = old_dt) => same_day
       /\ (old_dt # NoTime /\ new_dt = old_dt + 1)
          => (written /\ updated_fields.streak_count_solo = current.streak_count_solo + 1)
       /\ (old_dt # NoTime /\ new_dt > old_dt + 1)
          => (written /\ updated_fields.streak_count_solo = 1)

\* the update of a call writes the streak it computed, or leaves it
StreakWritten(p) ==
    \A i \in DOMAIN stats :
        stats[i].user_id = loc[p].uid
        => stats'[i].streak_count_solo
             = IF "streak_count_solo" \in DOMAIN loc[p].fields
               THEN loc[p].fields.streak_count_solo
               ELSE stats[i].streak_count_solo

\* get_user_stats resets the streak of a row last played two or more days
\* before today, and no other
StreakReset ==
    /\ \A p \in Handlers :
          (pc[p] = "idle" /\ req'[p].op = "get_user_stats")
          => /\ pc'[p] = "reset_streak"
             /\ StatsOf(req'[p].user, stats) # << >>
             /\ StatsOf(req'[p].user, stats)[1].dt_last_seen_solo # NoTime
             /\ StatsOf(req'[p].user, stats)[1].dt_last_seen_solo <= now - 2
             /\ stats' = stats
    /\ (/\ AnswersAtOnce /\ served'.op = "get_user_stats" /\ ~StoreError(resp')
        /\ StatsOf(served'.user, stats) # << >>)
       => /\ LET last_solo == StatsOf(served'.user, stats)[1].dt_last_seen_solo IN
             last_solo = NoTime \/ last_solo > now - 2
          /\ stats' = stats
    /\ \A p \in Handlers :
          (pc[p] = "reset_streak" /\ pc'[p] = "refetch_stats")
          => /\ DOMAIN stats' = DOMAIN stats
             /\ \A i \in DOMAIN stats :
                   stats'[i] = IF stats[i].user_id = req[p].user
                               THEN [stats[i] EXCEPT !.streak_count_solo = 0]
                               ELSE stats[i]

\* C34 as stated.  Solo streak bookkeeping: an update_user_stats call with
\* a new dt_last_seen_solo makes the streak 1 when the row it read has no
\* date, leaves it unchanged when the date is the stored one, makes it one
\* more when the date is one day later and 1 when it is more than one day
\* later; get_user_stats resets the streak to 0 when the stored date is two
\* or more days before today.
C34_StreakSameDayUnchanged ==
    [][/\ \A p \in Handlers :
             (pc[p] = "idle" /\ pc'[p] = "write_user_stats")
             => StreakComputed(StatsOf(req'[p].user, stats)[1], loc'[p].body, loc'[p].fields,
                               "streak_count_solo" \notin DOMAIN loc'[p].fields)
       /\ \A p \in Handlers :
             (StepAnswers(p, "update_user_stats", "write_user_stats") /\ resp'.code = 200)
             => StreakWritten(p)
       /\ StreakReset]_vars

\* C34, amended.  As stated, except that on the stored date the streak is
\* left unchanged only by a body without streak_count_solo: a body that
\* carries streak_count_solo has that value stored as the streak.
C34_StreakBookkeeping ==
    [][/\ \A p \in Handlers :
             (pc[p] = "idle" /\ pc'[p] = "write_user_stats")
             => LET user == loc'[p].body
                    updated_fields == loc'[p].fields IN
                StreakComputed(StatsOf(req'[p].user, stats)[1], user, updated_fields,
                    IF user.streak_count_solo = None
                    THEN "streak_count_solo" \notin DOMAIN updated_fields
                    ELSE /\ "streak_count_solo" \in DOMAIN updated_fields
                         /\ updated_fields.streak_count_solo = user.streak_count_solo)
       /\ \A p \in Handlers :
             (StepAnswers(p, "update_user_stats", "write_user_stats") /\ resp'.code = 200)
             => StreakWritten(p)
       /\ StreakReset]_vars

\* C34 witness: on day 2 get_user_stats answers with the streak reset to 0,
\* for a row last played on day 0
C34_Witness ==
    /\ served.op = "get_user_stats" /\ resp.code = 200 /\ now = 2
    /\ resp.data # << >>
    /\ resp.data[1].dt_last_seen_solo = 0
    /\ resp.data[1].streak_count_solo = 0
    /\ \E q \in Handlers :
          /\ pc[q] = "write_user_stats"
          /\ loc[q].fields = ("dt_last_seen_solo" :> 2) @@ ("streak_count_solo" :> 1)

\* C38. Battle stats counters lose no update: every update_battle_stats
\* call answered 200 leaves the user's num_battle_games one higher than it
\* was just before its write, num_wins_battle one higher when the call's
\* winner_id is the user and the same otherwise, and streak_count_battle
\* 0 after a loss and one more than before after a win, however the reads
\* and writes of the calls interleave.
C38_BattleCountersLoseNoUpdate ==
    [][\A p \in Handlers :
          (StepAnswers(p, "update_battle_stats", "write_battle_stats") /\ resp'.code = 200)
          => \A i \in DOMAIN stats :
                stats[i].user_id = loc[p].uid
                => LET win == loc[p].body.winner_id = loc[p].uid IN
                   /\ stats'[i].num_battle_games = stats[i].num_battle_games + 1
                   /\ stats'[i].num_wins_battle
                        = stats[i].num_wins_battle + (IF win THEN 1 ELSE 0)
                   /\ stats'[i].streak_count_battle
                        = IF win THEN stats[i].streak_count_battle + 1 ELSE 0]_vars

====
